---- MODULE Spec2Model ----
(***************************************************************************)
(* Model of the piano-fingering Lambda handler.                            *)
(*                                                                         *)
(*   src/lambda_function.py      lambda_handler                            *)
(*   src/pianoplayer/fingering.py FingeringGenerator.process               *)
(*   src/test.py                 the local harness (its event shape)       *)
(*                                                                         *)
(* One behaviour is one invocation of lambda_handler.  The event and the   *)
(* process environment are drawn in Init; the external collaborators       *)
(* (object storage, score parser, note reader, fingering engine,           *)
(* serializer, the filesystem's unlink) succeed or fail nondeterministically*)
(* at the step that calls them.  Python dicts are functions whose DOMAIN   *)
(* is the set of keys, so that `k in d` and d[k] (KeyError) are modelled   *)
(* as the code evaluates them.                                             *)
(***************************************************************************)
EXTENDS Integers, Sequences, FiniteSets, TLC

\* ------------------------------------------------------------------------
\* Python values
\* ------------------------------------------------------------------------

\* Python's None where a string is expected (os.environ.get without default,
\* dict.get without default).  Not a legal bucket or key name.
None == "<None>"

\* The empty dict.
EmptyDict == [k \in {} |-> ""]

\* A value whose Python type the code inspects (isinstance, `in`).
PyStr(s) == [type |-> "str", text |-> s, dict |-> EmptyDict]
PyDict(d) == [type |-> "dict", text |-> "", dict |-> d]
PyNone == [type |-> "NoneType", text |-> "", dict |-> EmptyDict]
PyInt == [type |-> "int", text |-> "", dict |-> EmptyDict]
PyList == [type |-> "list", text |-> "", dict |-> EmptyDict]
JSONDecodeError == [type |-> "JSONDecodeError", text |-> "", dict |-> EmptyDict]

\* dict.get(k, default)
Get(d, k, default) == IF k \in DOMAIN d THEN d[k] ELSE default

\* "".join(chars)
RECURSIVE Join(_)
Join(cs) == IF cs = <<>> THEN "" ELSE Head(cs) \o Join(Tail(cs))

\* ------------------------------------------------------------------------
\* os.path helpers, over paths given as sequences of characters
\* ------------------------------------------------------------------------

\* str.rfind(c) + 1: the 1-based index of the last c in p, 0 when absent.
LastIndexOf(p, c) ==
    LET hits == {i \in 1..Len(p) : p[i] = c}
    IN IF hits = {} THEN 0 ELSE CHOOSE i \in hits : \A j \in hits : j <= i

\* basename that keeps the directories of the path.
basename_whole(p) == p

\* os.path.basename(p): everything after the last "/".
basename(p) == SubSeq(p, LastIndexOf(p, "/") + 1, Len(p))

\* os.path.splitext(p)[1]: the extension including its dot, or "" when the
\* last dot precedes the last separator or only leading dots precede it.
splitext_ext(p) ==
    LET sep == LastIndexOf(p, "/")
        dot == LastIndexOf(p, ".")
    IN IF dot > sep /\ \E i \in (sep + 1)..(dot - 1) : p[i] # "."
       THEN SubSeq(p, dot, Len(p))
       ELSE <<>>

\* os.path.splitext(input_key)[1][1:] or 'musicxml'
FormatOfKey(key) ==
    LET ext == splitext_ext(key)
    IN IF Len(ext) > 1 THEN Join(Tail(ext)) ELSE "musicxml"

\* ------------------------------------------------------------------------
\* base64.b64decode (validate=False), as binascii.a2b_base64 computes it
\* ------------------------------------------------------------------------

B64Alphabet == {"Q", "A", "z", "0", "+", "/"}

\* Scans s from position i with quad_pos q, pad count pads and n bytes
\* emitted.  Characters outside the alphabet are skipped; a pad that
\* completes a quad ends the scan; a trailing partial quad is an error.
RECURSIVE a2b_base64(_, _, _, _, _)
a2b_base64(s, i, q, pads, n) ==
    IF i > Len(s)
    THEN IF q = 0 THEN [ok |-> TRUE, nbytes |-> n, error |-> ""]
         ELSE IF q = 1
              THEN [ok |-> FALSE, nbytes |-> 0,
                    error |-> "Invalid base64-encoded string"]
              ELSE [ok |-> FALSE, nbytes |-> 0, error |-> "Incorrect padding"]
    ELSE IF s[i] = "="
         THEN IF q >= 2 /\ q + pads + 1 >= 4
              THEN [ok |-> TRUE, nbytes |-> n, error |-> ""]
              ELSE a2b_base64(s, i + 1, q, pads + 1, n)
         ELSE IF s[i] \notin B64Alphabet
              THEN a2b_base64(s, i + 1, q, pads, n)
              ELSE a2b_base64(s, i + 1, (q + 1) % 4, 0,
                              IF q = 0 THEN n ELSE n + 1)

b64decode(s) == a2b_base64(s, 1, 0, 0, 0)

\* ------------------------------------------------------------------------
\* json.dumps / json.loads
\* ------------------------------------------------------------------------

\* json.dumps of one value: None is null, a string is quoted.  The strings
\* of the model contain no character that JSON escapes.
JsonValue(v) == IF v = None THEN "null" ELSE "\"" \o v \o "\""

\* json.dumps of a dict given as its items in insertion order.
RECURSIVE JsonItems(_)
JsonItems(items) ==
    IF items = <<>> THEN ""
    ELSE "\"" \o Head(items)[1] \o "\": " \o JsonValue(Head(items)[2])
         \o (IF Len(items) > 1 THEN ", " ELSE "") \o JsonItems(Tail(items))

JsonDumps(items) == "{" \o JsonItems(items) \o "}"

\* json.loads on the request bodies of the model: each text with the value
\* Python parses it to, or JSONDecodeError when it is not JSON.  The first
\* entry is the body src/test.py builds with json.dumps.
JsonTexts == <<
    [text |-> "{\"music_file\": \"QQ==\", \"hand_size\": \"M\", \"file_format\": \"musicxml\", \"filename\": \"song\", \"local_output_dir\": \"out\"}",
     value |-> PyDict([music_file |-> <<"Q", "Q", "=", "=">>, hand_size |-> "M",
                       file_format |-> "musicxml", filename |-> "song",
                       local_output_dir |-> "out"])],
    [text |-> "{\"music_file\": \"QQ==\", \"bucket_name\": \"X\"}",
     value |-> PyDict([music_file |-> <<"Q", "Q", "=", "=">>, bucket_name |-> "X"])],
    [text |-> "{\"music_file\": \"QQ=\", \"bucket_name\": \"X\"}",
     value |-> PyDict([music_file |-> <<"Q", "Q", "=">>, bucket_name |-> "X"])],
    [text |-> "{\"hand_size\": \"M\"}", value |-> PyDict([hand_size |-> "M"])],
    [text |-> "{}", value |-> PyDict(EmptyDict)],
    [text |-> "null", value |-> PyNone],
    [text |-> "5", value |-> PyInt],
    [text |-> "[]", value |-> PyList],
    [text |-> "{not json", value |-> JSONDecodeError],
    [text |-> "music_file=QQ==", value |-> JSONDecodeError],
    [text |-> "", value |-> JSONDecodeError] >>

JsonLoads(text) ==
    LET hits == {i \in 1..Len(JsonTexts) : JsonTexts[i].text = text}
    IN IF hits = {} THEN JSONDecodeError
       ELSE JsonTexts[CHOOSE i \in hits : TRUE].value

\* ------------------------------------------------------------------------
\* Inputs: the events and process environments an invocation is drawn from
\* ------------------------------------------------------------------------

\* Object keys of storage-trigger events, as character sequences.
Keys == { <<"d", "/", "s", ".", "m", "x", "l">>,
          <<"s", "o", "n", "g">>,
          <<"a", ".", "b", "/", "c">> }

S3Entity(b, k) == [bucket |-> [name |-> b], object |-> [key |-> k]]

\* The 'Records' lists: well-formed storage notifications, malformed ones,
\* and records of other event sources.
RecordsLists ==
    {<<[eventSource |-> "aws:s3", s3 |-> S3Entity("in", k)]>> : k \in Keys}
    \cup { <<>>,
           <<[eventSource |-> "aws:s3"]>>,
           <<[eventSource |-> "aws:s3", s3 |-> [bucket |-> [name |-> "in"]]]>>,
           <<[eventSource |-> "aws:s3",
              s3 |-> [object |-> [key |-> <<"s", "o", "n", "g">>]]]>>,
           <<[eventSource |-> "aws:sqs"]>>,
           <<[eventSource |-> "aws:sqs",
              s3 |-> S3Entity("in", <<"s", "o", "n", "g">>)]>>,
           <<[s3 |-> S3Entity("in", <<"s", "o", "n", "g">>)]>> }

\* Values of music_file: well-formed base64, wrong padding, a lone data
\* character, base64 with a stray character, and the empty string.
MusicFiles == { <<"Q", "Q", "=", "=">>,
                <<"Q", "Q", "=">>,
                <<"Q">>,
                <<"Q", "!", "Q", "=", "=">>,
                <<>> }

\* The other fields of a direct request.
OtherFields ==
    { EmptyDict,
      [hand_size |-> "M", file_format |-> "musicxml", filename |-> "song",
       local_output_dir |-> "out"],
      [hand_size |-> "L", rbeam |-> 1, lbeam |-> 0, file_format |-> "mxl",
       bucket_name |-> "X", output_key |-> "k"],
      [bucket_name |-> "X"] }

RequestDicts ==
    {o @@ m : o \in OtherFields,
              m \in {EmptyDict} \cup {[music_file |-> s] : s \in MusicFiles}}

\* A request is given at the top level of the event, or under 'body' as a
\* mapping, as JSON text, or as null (a proxy request without a body).
Payloads ==
    RequestDicts
    \cup {[body |-> PyDict(d)] : d \in RequestDicts}
    \cup {[body |-> PyStr(JsonTexts[i].text)] : i \in 1..Len(JsonTexts)}
    \cup {[body |-> PyNone]}

Events ==
    {r @@ p : r \in {EmptyDict} \cup {[Records |-> rs] : rs \in RecordsLists},
              p \in Payloads}

\* os.environ: the deployment marker and the default output bucket.
Environs ==
    {a @@ b : a \in {EmptyDict, [AWS_LAMBDA_FUNCTION_NAME |-> "fingering"]},
              b \in {EmptyDict, [OUTPUT_S3_BUCKET |-> "configured"]}}

\* ------------------------------------------------------------------------
\* Decisions and response shapes of lambda_handler
\* ------------------------------------------------------------------------

\* The branch taken at the head of the handler: the storage-trigger branch
\* when 'Records' is present and its first record's eventSource is 'aws:s3';
\* indexing an empty 'Records' list raises IndexError.
InvocationKind(ev) ==
    IF "Records" \in DOMAIN ev
    THEN IF ev.Records = <<>> THEN "IndexError"
         ELSE IF Get(ev.Records[1], "eventSource", None) = "aws:s3"
              THEN "storage" ELSE "direct"
    ELSE "direct"

\* The test that selects the flat response shape.
FlatShape(ev) == "Records" \in DOMAIN ev

\* event['Records'][0]['s3'][part][leaf]: the error the lookup raises, or ""
EventLookupError(ev, part, leaf) ==
    IF ev.Records = <<>> THEN "list index out of range"
    ELSE IF "s3" \notin DOMAIN ev.Records[1] THEN "'s3'"
    ELSE IF part \notin DOMAIN ev.Records[1].s3 THEN "'" \o part \o "'"
    ELSE IF leaf \notin DOMAIN ev.Records[1].s3[part] THEN "'" \o leaf \o "'"
    ELSE ""

EventLookup(ev, part, leaf) == ev.Records[1].s3[part][leaf]

\* ParseBody with the JSON error handler lost: a body that does not parse is
\* passed on as it is.
ParseBody_unhandled(ev) ==
    IF "body" \in DOMAIN ev
    THEN IF ev.body.type = "str"
         THEN [status |-> "ok", body |-> JsonLoads(ev.body.text)]
         ELSE [status |-> "ok", body |-> ev.body]
    ELSE [status |-> "ok", body |-> PyDict(ev)]

\* The request body of a direct invocation: event['body'] parsed when it is
\* a string, taken as it is otherwise, and the event itself without 'body'.
ParseBody(ev) ==
    IF "body" \in DOMAIN ev
    THEN IF ev.body.type = "str"
         THEN LET parsed == JsonLoads(ev.body.text)
              IN IF parsed.type = "JSONDecodeError"
                 THEN [status |-> "invalid", body |-> PyNone]
                 ELSE [status |-> "ok", body |-> parsed]
         ELSE [status |-> "ok", body |-> ev.body]
    ELSE [status |-> "ok", body |-> PyDict(ev)]

\* 'music_file' not in body: a key test on a mapping, an element test on
\* the (empty) list, a TypeError on None and on a number.
MusicFileCheck(body) ==
    IF body.type = "dict"
    THEN IF "music_file" \in DOMAIN body.dict THEN "present" ELSE "missing"
    ELSE IF body.type = "list" THEN "missing"
    ELSE "TypeError"

TypeErrorMessage(body) ==
    "argument of type '" \o body.type \o "' is not iterable"

UnboundLocalMessage(name) ==
    "cannot access local variable '" \o name
    \o "' where it is not associated with a value"

\* traceback.format_exc()
Traceback(msg) == "Traceback (most recent call last): " \o msg

BadRequest(msg) ==
    [statusCode |-> 400, body |-> JsonDumps(<< <<"error", msg>> >>)]

FlatFailure(msg, bucket, key) ==
    [statusCode |-> 500, error |-> msg, input_bucket |-> bucket,
     input_key |-> key]

BodyFailure(msg) ==
    [statusCode |-> 500, body |-> JsonDumps(<< <<"error", msg>> >>)]

StorageSuccess(ib, ik, ob, ok) ==
    [statusCode |-> 200, message |-> "File processed successfully",
     input_bucket |-> ib, input_key |-> ik,
     output_bucket |-> ob, output_key |-> ok]

ExpiresIn == 3600

\* s3.generate_presigned_url('get_object', Params, ExpiresIn)
PresignedUrl(bucket, key, expires) ==
    "https://" \o bucket \o ".s3.amazonaws.com/" \o key
    \o "?X-Amz-Expires=" \o ToString(expires)

CorsHeaders ==
    ("Content-Type" :> "application/json")
    @@ ("Access-Control-Allow-Origin" :> "*")

\* DirectSuccess with the bucket and key of the body exchanged.
DirectSuccess_swapped(bucket, key, url) ==
    [statusCode |-> 200,
     headers |-> CorsHeaders,
     body |-> JsonDumps(<< <<"s3_bucket", key>>, <<"s3_key", bucket>>,
                           <<"download_url", url>>,
                           <<"message",
                             "Successfully generated fingerings and saved to S3">> >>)]

DirectSuccess(bucket, key, url) ==
    [statusCode |-> 200,
     headers |-> CorsHeaders,
     body |-> JsonDumps(<< <<"s3_bucket", bucket>>, <<"s3_key", key>>,
                           <<"download_url", url>>,
                           <<"message",
                             "Successfully generated fingerings and saved to S3">> >>)]

\* ErrorResponse without the invocation-type test: always the JSON body.
ErrorResponse_body(ev, msg) ==
    [raised |-> FALSE, error |-> "",
     value |-> [statusCode |-> 500,
                body |-> JsonDumps(<< <<"error", msg>>,
                                      <<"traceback", Traceback(msg)>> >>)]]

\* ErrorResponse answering every exception as a client error.
ErrorResponse_as400(ev, msg) ==
    IF FlatShape(ev)
    THEN LET e1 == EventLookupError(ev, "bucket", "name")
             e2 == EventLookupError(ev, "object", "key")
         IN IF e1 # "" THEN [raised |-> TRUE, error |-> e1, value |-> EmptyDict]
            ELSE IF e2 # "" THEN [raised |-> TRUE, error |-> e2, value |-> EmptyDict]
            ELSE [raised |-> FALSE, error |-> "",
                  value |-> [statusCode |-> 400, error |-> msg,
                             traceback |-> Traceback(msg),
                             input_bucket |-> EventLookup(ev, "bucket", "name"),
                             input_key |-> Join(EventLookup(ev, "object", "key"))]]
    ELSE [raised |-> FALSE, error |-> "",
          value |-> [statusCode |-> 400,
                     body |-> JsonDumps(<< <<"error", msg>>,
                                           <<"traceback", Traceback(msg)>> >>)]]

\* The response of the outer exception handler; building the flat one reads
\* the bucket and key from the event again, which can raise.
ErrorResponse(ev, msg) ==
    IF FlatShape(ev)
    THEN LET e1 == EventLookupError(ev, "bucket", "name")
             e2 == EventLookupError(ev, "object", "key")
         IN IF e1 # "" THEN [raised |-> TRUE, error |-> e1, value |-> EmptyDict]
            ELSE IF e2 # "" THEN [raised |-> TRUE, error |-> e2, value |-> EmptyDict]
            ELSE [raised |-> FALSE, error |-> "",
                  value |-> [statusCode |-> 500, error |-> msg,
                             traceback |-> Traceback(msg),
                             input_bucket |-> EventLookup(ev, "bucket", "name"),
                             input_key |-> Join(EventLookup(ev, "object", "key"))]]
    ELSE [raised |-> FALSE, error |-> "",
          value |-> [statusCode |-> 500,
                     body |-> JsonDumps(<< <<"error", msg>>,
                                           <<"traceback", Traceback(msg)>> >>)]]

\* tempfile's unique names: the n-th name generated, with the given suffix.
TempName(n, suffix) == <<"/", "tmp", "/", "tmp" \o ToString(n), suffix>>

\* upload_fileobj: the client rejects a bucket that is not a string.
UploadSucceeds(bucket, ok) == bucket # None /\ ok

\* ------------------------------------------------------------------------
\* State
\* ------------------------------------------------------------------------

VARIABLES
    event,      \* the event passed to lambda_handler
    environ,    \* os.environ of the process
    pc,         \* the handler's position
    kind,       \* the branch selected at the head: "storage" or "direct"
    local,      \* the handler's local variables
    bound,      \* the names of the locals assigned so far
    files,      \* the temporary directory: path -> size in bytes
    files0,     \* the temporary directory when the invocation began
    tmpseq,     \* number of temporary names generated
    s3log,      \* the object-storage calls made, in order
    pipeline,   \* the FingeringGenerator built by the handler and its progress
    pending,    \* the return value or exception in flight through a handler
    outcome,    \* "running", "returned" or "raised"
    response,   \* the response returned
    failed,     \* the stages whose collaborator failed
    unlinks     \* the os.unlink calls made, in order

vars == <<event, environ, pc, kind, local, bound, files, files0, tmpseq,
          s3log, pipeline, pending, outcome, response, failed, unlinks>>

NoPending == [kind |-> "none", error |-> "", value |-> EmptyDict]

NoPipeline ==
    [started |-> FALSE, returned |-> FALSE, file_path |-> None,
     hand_size |-> "", rbeam |-> 0, lbeam |-> 0,
     output_bucket |-> "", output_key |-> "", output_path |-> None,
     artifact |-> "none"]

\* Files another process left in the temporary directory.
StalePaths == {"/tmp/stale.log"}

Init ==
    /\ event \in Events
    /\ environ \in Environs
    /\ pc = "dispatch"
    /\ kind = "none"
    /\ local = [input_bucket |-> "", input_key |-> <<>>, filename |-> "",
                file_format |-> "", output_bucket |-> "", output_key |-> "",
                hand_size |-> "", rbeam |-> 0, lbeam |-> 0,
                body |-> PyNone, file_content |-> 0,
                temp_file_path |-> None, input_file_path |-> None,
                fingered_file |-> None, presigned_url |-> ""]
    /\ bound = {"temp_file_path", "input_file_path"}
    /\ \E stale \in SUBSET StalePaths : files = [f \in stale |-> 1]
    /\ files0 = files
    /\ tmpseq = 0
    /\ s3log = <<>>
    /\ pipeline = NoPipeline
    /\ pending = NoPending
    /\ outcome = "running"
    /\ response = EmptyDict
    /\ failed = {}
    /\ unlinks = <<>>

\* ------------------------------------------------------------------------
\* Control transfers
\* ------------------------------------------------------------------------

\* An exception raised in the outer try block, outside the inner one.
RaiseOuter(msg) ==
    /\ pc' = "except_cleanup"
    /\ pending' = [kind |-> "raise", error |-> msg, value |-> EmptyDict]
    /\ UNCHANGED <<outcome, response>>

\* An exception raised inside the inner try block: the finally clause runs.
RaiseInner(msg) ==
    /\ pc' = "finally_input"
    /\ pending' = [kind |-> "raise", error |-> msg, value |-> EmptyDict]
    /\ UNCHANGED <<outcome, response>>

\* A return statement inside the inner try block: the finally clause runs.
ReturnInner(resp) ==
    /\ pc' = "finally_input"
    /\ pending' = [kind |-> "return", error |-> "", value |-> resp]
    /\ UNCHANGED <<outcome, response>>

\* A return statement that no finally clause intercepts.
ReturnNow(resp) ==
    /\ pc' = "done"
    /\ pending' = NoPending
    /\ outcome' = "returned"
    /\ response' = resp

\* An exception that leaves lambda_handler.
Propagate(msg) ==
    /\ pc' = "done"
    /\ pending' = [kind |-> "raise", error |-> msg, value |-> EmptyDict]
    /\ outcome' = "raised"
    /\ UNCHANGED response

Goto(label) ==
    /\ pc' = label
    /\ UNCHANGED <<pending, outcome, response>>

\* tempfile.NamedTemporaryFile(suffix, delete=False): a new empty file.
NewTempPath(suffix) == Join(TempName(tmpseq + 1, suffix))

\* ------------------------------------------------------------------------
\* lambda_handler: request normalization
\* ------------------------------------------------------------------------

\* if 'Records' in event and event['Records'][0].get('eventSource') == 'aws:s3'
Dispatch ==
    /\ pc = "dispatch"
    /\ LET k == InvocationKind(event)
       IN IF k = "IndexError"
          THEN /\ RaiseOuter("list index out of range")
               /\ UNCHANGED kind
          ELSE /\ kind' = k
               /\ Goto(IF k = "storage" THEN "s3_event" ELSE "body")
    /\ UNCHANGED <<event, environ, local, bound, files, files0, tmpseq, s3log,
                   pipeline, failed, unlinks>>

\* The storage-trigger branch up to the output target: bucket and key are
\* read from the first record, the format from the key's extension, the
\* output bucket from OUTPUT_S3_BUCKET or "<input bucket>-output".
S3Event ==
    /\ pc = "s3_event"
    /\ LET e1 == EventLookupError(event, "bucket", "name")
           e2 == EventLookupError(event, "object", "key")
       IN IF e1 # "" \/ e2 # ""
          THEN /\ RaiseOuter(IF e1 # "" THEN e1 ELSE e2)
               /\ UNCHANGED <<local, bound>>
          ELSE LET b == EventLookup(event, "bucket", "name")
                   k == EventLookup(event, "object", "key")
               IN /\ local' = [local EXCEPT
                        !.input_bucket = b,
                        !.input_key = k,
                        !.filename = Join(basename(k)),
                        !.file_format = FormatOfKey(k),
                        !.output_bucket =
                            Get(environ, "OUTPUT_S3_BUCKET", b \o "-output"),
                        !.output_key = "processed/" \o Join(basename(k))]
                  /\ bound' = bound \cup {"record", "input_bucket", "input_key",
                                          "filename", "file_format",
                                          "output_bucket", "output_key"}
                  /\ Goto("download")
    /\ UNCHANGED <<event, environ, kind, files, files0, tmpseq, s3log,
                   pipeline, failed, unlinks>>

\* The download of the triggering object into a new temporary file.  The
\* file's name is assigned to input_file_path only after the download.
Download ==
    /\ pc = "download"
    /\ LET path == NewTempPath("." \o local.file_format)
       IN /\ tmpseq' = tmpseq + 1
          /\ \E ok \in BOOLEAN :
                /\ s3log' = Append(s3log,
                        [op |-> "download", bucket |-> local.input_bucket,
                         key |-> Join(local.input_key), expires |-> 0,
                         ok |-> ok])
                /\ IF ok
                   THEN /\ files' = (path :> 1) @@ files
                        /\ local' = [local EXCEPT !.input_file_path = path,
                                                  !.hand_size = "M",
                                                  !.rbeam = 0,
                                                  !.lbeam = 1]
                        /\ bound' = bound \cup {"s3", "hand_size", "rbeam", "lbeam"}
                        /\ failed' = failed
                        /\ Goto("construct")
                   ELSE /\ files' = (path :> 0) @@ files
                        /\ bound' = bound \cup {"s3"}
                        /\ failed' = failed \cup {"download"}
                        /\ RaiseOuter("download failed")
                        /\ UNCHANGED local
    /\ UNCHANGED <<event, environ, kind, files0, pipeline, unlinks>>

\* The direct branch: the request body, or 400 when it is not JSON.
Body ==
    /\ pc = "body"
    /\ LET parsed == ParseBody(event)
       IN IF parsed.status = "invalid"
          THEN /\ ReturnNow(BadRequest("Invalid JSON in request body"))
               /\ UNCHANGED <<local, bound>>
          ELSE /\ local' = [local EXCEPT !.body = parsed.body]
               /\ bound' = bound \cup {"body"}
               /\ Goto("validate")
    /\ UNCHANGED <<event, environ, kind, files, files0, tmpseq, s3log,
                   pipeline, failed, unlinks>>

\* The required field, then the parameters with their defaults.
Validate ==
    /\ pc = "validate"
    /\ LET check == MusicFileCheck(local.body)
           d == local.body.dict
       IN CASE check = "TypeError" ->
                 /\ RaiseOuter(TypeErrorMessage(local.body))
                 /\ UNCHANGED <<local, bound>>
            [] check = "missing" ->
                 /\ ReturnNow(BadRequest("Missing music_file parameter"))
                 /\ UNCHANGED <<local, bound>>
            [] check = "present" ->
                 /\ local' = [local EXCEPT
                        !.hand_size = Get(d, "hand_size", "M"),
                        !.rbeam = Get(d, "rbeam", 0),
                        !.lbeam = Get(d, "lbeam", 1),
                        !.file_format = Get(d, "file_format", "musicxml")]
                 /\ bound' = bound \cup {"hand_size", "rbeam", "lbeam",
                                         "file_format"}
                 /\ Goto("decode")
    /\ UNCHANGED <<event, environ, kind, files, files0, tmpseq, s3log,
                   pipeline, failed, unlinks>>

\* file_content = base64.b64decode(body['music_file'])
Decode ==
    /\ pc = "decode"
    /\ LET r == b64decode(local.body.dict.music_file)
       IN IF r.ok
          THEN /\ local' = [local EXCEPT !.file_content = r.nbytes]
               /\ bound' = bound \cup {"file_content"}
               /\ failed' = failed
               /\ Goto("write_input")
          ELSE /\ failed' = failed \cup {"decode"}
               /\ RaiseOuter(r.error)
               /\ UNCHANGED <<local, bound>>
    /\ UNCHANGED <<event, environ, kind, files, files0, tmpseq, s3log,
                   pipeline, unlinks>>

\* The decoded content written to a new temporary file, then the output
\* target: bucket_name or OUTPUT_S3_BUCKET or None, output_key or a
\* generated unique key.
WriteInput ==
    /\ pc = "write_input"
    /\ LET path == NewTempPath("." \o local.file_format)
           generated == TempName(tmpseq + 2, ".musicxml")
           d == local.body.dict
       IN \E ok \in BOOLEAN :
             IF ok
             THEN /\ files' = (path :> local.file_content) @@ files
                  /\ tmpseq' = tmpseq + 2
                  /\ local' = [local EXCEPT
                        !.input_file_path = path,
                        !.output_bucket =
                            Get(d, "bucket_name",
                                Get(environ, "OUTPUT_S3_BUCKET", None)),
                        !.output_key =
                            Get(d, "output_key",
                                "fingered_scores/" \o Join(basename(generated)))]
                  /\ bound' = bound \cup {"output_bucket", "output_key"}
                  /\ failed' = failed
                  /\ Goto("construct")
             ELSE /\ files' = (path :> 0) @@ files
                  /\ tmpseq' = tmpseq + 1
                  /\ failed' = failed \cup {"input_write"}
                  /\ RaiseOuter("No space left on device")
                  /\ UNCHANGED <<local, bound>>
    /\ UNCHANGED <<event, environ, kind, files0, s3log, pipeline, unlinks>>

\* ------------------------------------------------------------------------
\* FingeringGenerator
\* ------------------------------------------------------------------------

\* ResolveBeam with the caller's args ignored.
ResolveBeam_default(args, name, default) == default

\* process(): the part index of a hand is the attribute of args when args
\* has it, else the default.  args is the namespace the handler passes.
ResolveBeam(args, name, default) ==
    IF name \in DOMAIN args THEN args[name] ELSE default

\* args = argparse.Namespace(rbeam, lbeam), then
\* fg = FingeringGenerator(input_file_path, hand_size, verbose, args)
Construct ==
    /\ pc = "construct"
    /\ pipeline' = [pipeline EXCEPT
            !.started = TRUE,
            !.file_path = local.input_file_path,
            !.hand_size = local.hand_size,
            !.rbeam = ResolveBeam([rbeam |-> local.rbeam,
                                   lbeam |-> local.lbeam], "rbeam", 0),
            !.lbeam = ResolveBeam([rbeam |-> local.rbeam,
                                   lbeam |-> local.lbeam], "lbeam", 1),
            !.output_bucket = local.output_bucket,
            !.output_key = local.output_key]
    /\ bound' = bound \cup {"args", "fg"}
    /\ Goto("p_create")
    /\ UNCHANGED <<event, environ, kind, local, files, files0, tmpseq, s3log,
                   failed, unlinks>>

\* process(): the temporary output file is created first, and closed.
ProcessCreate ==
    /\ pc = "p_create"
    /\ LET path == NewTempPath(".musicxml")
       IN /\ files' = (path :> 0) @@ files
          /\ tmpseq' = tmpseq + 1
          /\ pipeline' = [pipeline EXCEPT !.output_path = path]
    /\ Goto("p_parse")
    /\ UNCHANGED <<event, environ, kind, local, bound, files0, s3log, failed,
                   unlinks>>

\* process(): converter.parse(self.file_path); a failure is re-raised.
ProcessParse ==
    /\ pc = "p_parse"
    /\ \E ok \in BOOLEAN :
          IF ok
          THEN /\ failed' = failed
               /\ Goto("p_right")
          ELSE /\ failed' = failed \cup {"parse"}
               /\ RaiseInner("parse error")
    /\ UNCHANGED <<event, environ, kind, local, bound, files, files0, tmpseq,
                   s3log, pipeline, unlinks>>

\* process(): one hand's notes are read from its part, then fingered.
ProcessHand ==
    /\ pc \in {"p_right", "p_left"}
    /\ \E result \in {"ok", "extract", "engine"} :
          IF result = "ok"
          THEN /\ failed' = failed
               /\ Goto(IF pc = "p_right" THEN "p_left" ELSE "p_write")
          ELSE /\ failed' = failed \cup {result}
               /\ RaiseInner(result \o " error")
    /\ UNCHANGED <<event, environ, kind, local, bound, files, files0, tmpseq,
                   s3log, pipeline, unlinks>>

\* process(): annotation, metadata scrubbing and sf.write('xml', output_path),
\* then the return of output_path, which the handler binds to fingered_file.
\* The serializer writes the score, or writes nothing, or leaves no file at
\* output_path, or raises.
ProcessWrite ==
    /\ pc = "p_write"
    /\ \E result \in {"written", "empty", "removed", "serialize"} :
          IF result = "serialize"
          THEN /\ failed' = failed \cup {"serialize"}
               /\ RaiseInner("serialize error")
               /\ UNCHANGED <<files, pipeline, local, bound>>
          ELSE /\ files' =
                    CASE result = "written" ->
                           [files EXCEPT ![pipeline.output_path] = 1]
                      [] result = "empty" -> files
                      [] result = "removed" ->
                           [f \in DOMAIN files \ {pipeline.output_path}
                              |-> files[f]]
               /\ pipeline' = [pipeline EXCEPT !.returned = TRUE,
                                               !.artifact = result]
               /\ local' = [local EXCEPT !.fingered_file = pipeline.output_path]
               /\ bound' = bound \cup {"fingered_file"}
               /\ failed' = failed
               /\ Goto("check")
    /\ UNCHANGED <<event, environ, kind, files0, tmpseq, s3log, unlinks>>

\* ------------------------------------------------------------------------
\* lambda_handler: delivery
\* ------------------------------------------------------------------------

\* if not fingered_file or not os.path.exists(fingered_file)
CheckOutput ==
    /\ pc = "check"
    /\ IF local.fingered_file = None \/ local.fingered_file \notin DOMAIN files
       THEN IF FlatShape(event)
            THEN IF "input_bucket" \in bound
                 THEN ReturnInner(FlatFailure("Failed to generate fingered file",
                                              local.input_bucket,
                                              Join(local.input_key)))
                 ELSE RaiseInner(UnboundLocalMessage("input_bucket"))
            ELSE ReturnInner(BodyFailure("Failed to generate fingered file"))
       ELSE Goto("upload")
    /\ UNCHANGED <<event, environ, kind, local, bound, files, files0, tmpseq,
                   s3log, pipeline, failed, unlinks>>

\* AfterUpload with the failure of the upload swallowed.
AfterUpload_swallow(ok) ==
    IF FlatShape(event)
    THEN IF "input_bucket" \in bound THEN "storage" ELSE "unbound"
    ELSE "presign"

\* The position after s3.upload_fileobj: the storage response, the presigned
\* URL, or the exception of a failed upload.
AfterUpload(ok) ==
    IF ~ok THEN "raise"
    ELSE IF FlatShape(event)
         THEN IF "input_bucket" \in bound THEN "storage" ELSE "unbound"
         ELSE "presign"

\* Upload with one retry after a failed first attempt.
Upload_retry ==
    /\ pc = "upload"
    /\ \E accepted \in BOOLEAN :
          LET ok == UploadSucceeds(local.output_bucket, accepted)
              next == AfterUpload(ok)
          IN /\ s3log' = Append(s3log,
                      [op |-> "upload", bucket |-> local.output_bucket,
                       key |-> local.output_key, expires |-> 0, ok |-> ok])
             /\ failed' = IF ok THEN failed ELSE failed \cup {"upload"}
             /\ CASE next = "raise" /\ s3log = <<>> -> Goto("upload")
                  [] next = "raise" /\ s3log # <<>> -> RaiseInner("upload failed")
                  [] next = "unbound" ->
                       RaiseInner(UnboundLocalMessage("input_bucket"))
                  [] next = "storage" ->
                       ReturnInner(StorageSuccess(local.input_bucket,
                                                  Join(local.input_key),
                                                  local.output_bucket,
                                                  local.output_key))
                  [] next = "presign" -> Goto("presign")
    /\ bound' = bound \cup {"s3", "file_data"}
    /\ UNCHANGED <<event, environ, kind, local, files, files0, tmpseq,
                   pipeline, unlinks>>

\* s3.upload_fileobj(file_data, output_bucket, output_key), attempted once.
Upload ==
    /\ pc = "upload"
    /\ \E accepted \in BOOLEAN :
          LET ok == UploadSucceeds(local.output_bucket, accepted)
              next == AfterUpload(ok)
          IN /\ s3log' = Append(s3log,
                      [op |-> "upload", bucket |-> local.output_bucket,
                       key |-> local.output_key, expires |-> 0, ok |-> ok])
             /\ failed' = IF ok THEN failed ELSE failed \cup {"upload"}
             /\ CASE next = "raise" -> RaiseInner("upload failed")
                  [] next = "unbound" ->
                       RaiseInner(UnboundLocalMessage("input_bucket"))
                  [] next = "storage" ->
                       ReturnInner(StorageSuccess(local.input_bucket,
                                                  Join(local.input_key),
                                                  local.output_bucket,
                                                  local.output_key))
                  [] next = "presign" -> Goto("presign")
    /\ bound' = bound \cup {"s3", "file_data"}
    /\ UNCHANGED <<event, environ, kind, local, files, files0, tmpseq,
                   pipeline, unlinks>>

\* s3.generate_presigned_url for the uploaded object, then the result.
Presign ==
    /\ pc = "presign"
    /\ \E ok \in BOOLEAN :
          LET url == PresignedUrl(local.output_bucket, local.output_key,
                                  ExpiresIn)
          IN /\ s3log' = Append(s3log,
                      [op |-> "presign", bucket |-> local.output_bucket,
                       key |-> local.output_key, expires |-> ExpiresIn,
                       ok |-> ok])
             /\ IF ok
                THEN /\ local' = [local EXCEPT !.presigned_url = url]
                     /\ bound' = bound \cup {"presigned_url", "result"}
                     /\ failed' = failed
                     /\ ReturnInner(DirectSuccess(local.output_bucket,
                                                  local.output_key, url))
                ELSE /\ failed' = failed \cup {"presign"}
                     /\ RaiseInner("presign failed")
                     /\ UNCHANGED <<local, bound>>
    /\ UNCHANGED <<event, environ, kind, files, files0, tmpseq, pipeline,
                   unlinks>>

\* ------------------------------------------------------------------------
\* lambda_handler: cleanup and the outer exception handler
\* ------------------------------------------------------------------------

Remove(fs, path) == [f \in DOMAIN fs \ {path} |-> fs[f]]

\* ShouldUnlink without the test that the file exists.
ShouldUnlink_unguarded(path) == path # None

\* if path and os.path.exists(path): the guard of every os.unlink.
ShouldUnlink(path) == path # None /\ path \in DOMAIN files

\* The exit of the finally clause: the pending return value is returned, the
\* pending exception reaches the outer handler.
FinallyExit ==
    IF pending.kind = "return"
    THEN ReturnNow(pending.value)
    ELSE /\ pc' = "except_cleanup"
         /\ UNCHANGED <<pending, outcome, response>>

\* finally: if input_file_path and os.path.exists(input_file_path):
\*              os.unlink(input_file_path)
\* An exception of os.unlink replaces whatever was pending.
FinallyInput ==
    /\ pc = "finally_input"
    /\ IF ShouldUnlink(local.input_file_path)
       THEN \E ok \in BOOLEAN :
               /\ unlinks' = Append(unlinks,
                        [path |-> local.input_file_path, ok |-> ok])
               /\ IF ok
                  THEN /\ files' = Remove(files, local.input_file_path)
                       /\ failed' = failed
                       /\ Goto("finally_output")
                  ELSE /\ failed' = failed \cup {"unlink"}
                       /\ RaiseOuter("unlink failed")
                       /\ UNCHANGED files
       ELSE /\ Goto("finally_output")
            /\ UNCHANGED <<files, failed, unlinks>>
    /\ UNCHANGED <<event, environ, kind, local, bound, files0, tmpseq, s3log,
                   pipeline>>

\* finally: if fingered_file and os.path.exists(fingered_file):
\*              os.unlink(fingered_file)
\* fingered_file is unbound when process() did not return.
FinallyOutput ==
    /\ pc = "finally_output"
    /\ IF "fingered_file" \notin bound
       THEN /\ RaiseOuter(UnboundLocalMessage("fingered_file"))
            /\ UNCHANGED <<files, failed, unlinks>>
       ELSE IF ShouldUnlink(local.fingered_file)
            THEN \E ok \in BOOLEAN :
                    /\ unlinks' = Append(unlinks,
                             [path |-> local.fingered_file, ok |-> ok])
                    /\ IF ok
                       THEN /\ files' = Remove(files, local.fingered_file)
                            /\ failed' = failed
                            /\ FinallyExit
                       ELSE /\ failed' = failed \cup {"unlink"}
                            /\ RaiseOuter("unlink failed")
                            /\ UNCHANGED files
            ELSE /\ FinallyExit
                 /\ UNCHANGED <<files, failed, unlinks>>
    /\ UNCHANGED <<event, environ, kind, local, bound, files0, tmpseq, s3log,
                   pipeline>>

\* except Exception: the input file is unlinked if it still exists; a failure
\* of this unlink is swallowed.
ExceptCleanup ==
    /\ pc = "except_cleanup"
    /\ IF ShouldUnlink(local.input_file_path)
       THEN \E ok \in BOOLEAN :
               /\ unlinks' = Append(unlinks,
                        [path |-> local.input_file_path, ok |-> ok])
               /\ files' = IF ok THEN Remove(files, local.input_file_path)
                           ELSE files
               /\ failed' = IF ok THEN failed ELSE failed \cup {"unlink"}
       ELSE UNCHANGED <<files, failed, unlinks>>
    /\ Goto("except_respond")
    /\ UNCHANGED <<event, environ, kind, local, bound, files0, tmpseq, s3log,
                   pipeline>>

\* except Exception: the 500 response in the shape 'Records' in event selects.
ExceptRespond ==
    /\ pc = "except_respond"
    /\ LET r == ErrorResponse(event, pending.error)
       IN IF r.raised THEN Propagate(r.error) ELSE ReturnNow(r.value)
    /\ UNCHANGED <<event, environ, kind, local, bound, files, files0, tmpseq,
                   s3log, pipeline, failed, unlinks>>

\* ------------------------------------------------------------------------
\* Specification
\* ------------------------------------------------------------------------

Next ==
    \/ Dispatch
    \/ S3Event
    \/ Download
    \/ Body
    \/ Validate
    \/ Decode
    \/ WriteInput
    \/ Construct
    \/ ProcessCreate
    \/ ProcessParse
    \/ ProcessHand
    \/ ProcessWrite
    \/ CheckOutput
    \/ Upload
    \/ Presign
    \/ FinallyInput
    \/ FinallyOutput
    \/ ExceptCleanup
    \/ ExceptRespond

Spec == Init /\ [][Next]_vars

\* ------------------------------------------------------------------------
\* Properties
\* ------------------------------------------------------------------------

Done == pc = "done"
Returned == outcome = "returned"
Status(code) == Returned /\ response.statusCode = code

\* The stages that precede delivery.
PreDeliveryStages ==
    {"download", "decode", "input_write", "parse", "extract", "engine",
     "serialize"}

Uploads == {i \in 1..Len(s3log) : s3log[i].op = "upload"}

\* C1: when the response is returned, the temporary files that exist are
\* those that existed before the invocation.
C1_TempFilesRestored == Returned => files = files0

\* C2: every invocation ends by returning a response envelope with a
\* statusCode; no exception leaves lambda_handler.
C2_AlwaysAnEnvelope == Done => Returned /\ "statusCode" \in DOMAIN response

\* The request of a direct invocation names a local destination.
LocalRequest ==
    /\ kind = "direct"
    /\ "body" \in bound
    /\ local.body.type = "dict"
    /\ {"filename", "local_output_dir"} \subseteq DOMAIN local.body.dict

LocalOutputFile ==
    local.body.dict.local_output_dir \o "/fingered_"
    \o local.body.dict.filename \o ".musicxml"

\* C3: outside Lambda (AWS_LAMBDA_FUNCTION_NAME absent), a direct request
\* with filename F and local_output_dir D whose pipeline wrote the score is
\* answered 200 with output_file = D/fingered_F.musicxml, and nothing is
\* uploaded to object storage.
C3_LocalDelivery ==
    ( /\ Done
      /\ "AWS_LAMBDA_FUNCTION_NAME" \notin DOMAIN environ
      /\ LocalRequest
      /\ pipeline.artifact = "written"
      /\ failed \cap PreDeliveryStages = {} )
    => /\ Uploads = {}
       /\ Status(200)
       /\ "body" \in DOMAIN response
       /\ \E m \in {"Successfully generated fingerings",
                    "Successfully generated fingerings and saved locally"} :
             response.body = JsonDumps(<< <<"output_file", LocalOutputFile>>,
                                          <<"message", m>> >>)

\* The handler resolved a request body, and it has no music_file field.
BodyWithoutMusicFile ==
    /\ kind = "direct"
    /\ "body" \in bound
    /\ ~(local.body.type = "dict" /\ "music_file" \in DOMAIN local.body.dict)

\* C4: a direct request whose body has no music_file field is answered
\* exactly {statusCode: 400, body: {"error": "Missing music_file parameter"}}.
C4_MissingMusicFile ==
    (Done /\ BodyWithoutMusicFile)
    => Returned /\ response = BadRequest("Missing music_file parameter")

\* The event's body is a string that is not JSON text.
BodyIsInvalidJson ==
    /\ kind = "direct"
    /\ "body" \in DOMAIN event
    /\ event.body.type = "str"
    /\ JsonLoads(event.body.text).type = "JSONDecodeError"

\* C5: a direct request whose body is a string that is not valid JSON is
\* answered exactly {statusCode: 400, body: {"error": "Invalid JSON in
\* request body"}}.
C5_InvalidJson ==
    (Done /\ BodyIsInvalidJson)
    => /\ Returned
       /\ response = [statusCode |-> 400,
                      body |-> "{\"error\": \"Invalid JSON in request body\"}"]

C5_Witness == Done /\ BodyIsInvalidJson /\ Status(400)

\* The request carries a music_file that base64 decoding rejects.
MalformedMusicFile ==
    /\ kind = "direct"
    /\ "body" \in bound
    /\ local.body.type = "dict"
    /\ "music_file" \in DOMAIN local.body.dict
    /\ ~b64decode(local.body.dict.music_file).ok

\* C6: a direct request whose music_file is malformed base64 is answered 400
\* with a structured error body, and the pipeline is not invoked.
C6_MalformedBase64 ==
    (Done /\ MalformedMusicFile)
    => Status(400) /\ "body" \in DOMAIN response /\ ~pipeline.started

\* C7: the upload is attempted at most once; only after normalization and
\* FingeringGenerator.process completed without failure; and a 200 response
\* was preceded by a successful upload.
C7_SingleDurableWrite ==
    /\ Cardinality(Uploads) <= 1
    /\ Uploads # {} =>
          /\ {"output_bucket", "output_key", "fingered_file"} \subseteq bound
          /\ pipeline.returned
          /\ failed \cap PreDeliveryStages = {}
    /\ Status(200) => \E i \in Uploads : s3log[i].ok

C7_Witness == Done /\ Status(200) /\ Cardinality(Uploads) = 1

\* The event is a storage notification with a bucket and a key.
StorageInvocation == kind = "storage" /\ "input_key" \in bound

\* C8: a storage-trigger invocation for bucket B and key K that does not
\* succeed is answered with a flat mapping: statusCode 500, an error entry,
\* input_bucket = B, input_key = K, and no body entry; and an invocation in
\* which a stage failed does not succeed.
C8_StorageFailureIsFlat ==
    (Done /\ StorageInvocation)
    => /\ Returned
       /\ \/ Status(200) /\ failed = {}
          \/ /\ Status(500)
             /\ "error" \in DOMAIN response
             /\ "body" \notin DOMAIN response
             /\ response.input_bucket = EventLookup(event, "bucket", "name")
             /\ response.input_key = Join(EventLookup(event, "object", "key"))

C8_Witness == Done /\ StorageInvocation /\ "parse" \in failed /\ Status(500)

\* C9: an event processed as a storage trigger is answered in the flat
\* shape (no body, no headers, bucket and key echoed); an event processed as
\* a direct request is answered with its payload under 'body'.
C9_ShapeMatchesKind ==
    /\ (kind = "storage" /\ Returned) =>
          /\ {"body", "headers"} \cap DOMAIN response = {}
          /\ {"input_bucket", "input_key"} \subseteq DOMAIN response
          /\ {"message", "error"} \cap DOMAIN response # {}
    /\ (kind = "direct" /\ Done) => Returned /\ "body" \in DOMAIN response

\* C10: a direct request answered 200 carries the permissive cross-origin
\* header, and its body names the bucket and key of a successful upload and a
\* download_url issued afterwards for that bucket and key, expiring in 3600 s.
C10_DirectSuccess ==
    (Done /\ kind = "direct" /\ Status(200))
    => /\ "headers" \in DOMAIN response
       /\ response.headers["Access-Control-Allow-Origin"] = "*"
       /\ \E i, j \in 1..Len(s3log) :
             /\ i < j
             /\ s3log[i].op = "upload" /\ s3log[i].ok
             /\ s3log[j].op = "presign" /\ s3log[j].ok
             /\ s3log[j].bucket = s3log[i].bucket
             /\ s3log[j].key = s3log[i].key
             /\ s3log[j].expires = 3600
             /\ response.body =
                   JsonDumps(<< <<"s3_bucket", s3log[i].bucket>>,
                                <<"s3_key", s3log[i].key>>,
                                <<"download_url",
                                  PresignedUrl(s3log[i].bucket, s3log[i].key,
                                               3600)>>,
                                <<"message",
                                  "Successfully generated fingerings and saved to S3">> >>)

C10_Witness == Done /\ kind = "direct" /\ Status(200)

\* C11: when the upload begins, the file process() returned exists and is not
\* empty; and when process() returned a path to a missing file or left its
\* output file empty, the response is 500 and nothing is uploaded.
C11_ArtifactBeforeDelivery ==
    /\ pc = "upload" =>
          /\ local.fingered_file \in DOMAIN files
          /\ files[local.fingered_file] > 0
    /\ (Done /\ pipeline.artifact \in {"empty", "removed"}) =>
          Status(500) /\ Uploads = {}

\* C12: when FingeringGenerator is constructed and run, the output target is
\* resolved: neither the destination bucket nor the destination key is None.
C12_TargetResolved ==
    pipeline.started =>
       /\ pipeline.output_bucket # None
       /\ pipeline.output_key # None

\* The format the extension of each key of the model stands for.
ExpectedFormat(k) ==
    IF k = <<"d", "/", "s", ".", "m", "x", "l">> THEN "mxl" ELSE "musicxml"

\* C13: the pipeline receives the caller's hand_size, rbeam and lbeam, and
\* the input file carries the caller's file_format, when a direct request
\* supplies them, and "M", 0, 1 and "musicxml" otherwise; a storage-trigger
\* invocation always gets "M", 0 and 1, and the format of the key's
\* extension, or "musicxml" when the key has none.
C13_ParameterPrecedence ==
    pipeline.started =>
       IF kind = "storage"
       THEN /\ pipeline.hand_size = "M"
            /\ pipeline.rbeam = 0
            /\ pipeline.lbeam = 1
            /\ pipeline.file_path =
                  "/tmp/tmp1." \o ExpectedFormat(EventLookup(event, "object", "key"))
       ELSE LET d == local.body.dict
            IN /\ pipeline.hand_size =
                     (IF "hand_size" \in DOMAIN d THEN d.hand_size ELSE "M")
               /\ pipeline.rbeam = (IF "rbeam" \in DOMAIN d THEN d.rbeam ELSE 0)
               /\ pipeline.lbeam = (IF "lbeam" \in DOMAIN d THEN d.lbeam ELSE 1)
               /\ pipeline.file_path =
                     "/tmp/tmp1." \o (IF "file_format" \in DOMAIN d
                                      THEN d.file_format ELSE "musicxml")

C13_Witness ==
    /\ pipeline.started
    /\ kind = "direct"
    /\ "rbeam" \in DOMAIN local.body.dict
    /\ pipeline.rbeam = 1
    /\ pipeline.hand_size = "L"

\* The output key each key of the model is to be stored under.
ExpectedOutputKey(k) ==
    CASE k = <<"d", "/", "s", ".", "m", "x", "l">> -> "processed/s.mxl"
      [] k = <<"s", "o", "n", "g">> -> "processed/song"
      [] k = <<"a", ".", "b", "/", "c">> -> "processed/c"

ExpectedOutputBucket ==
    IF "OUTPUT_S3_BUCKET" \in DOMAIN environ
    THEN environ.OUTPUT_S3_BUCKET
    ELSE EventLookup(event, "bucket", "name") \o "-output"

\* C14: a storage-trigger invocation for bucket B and key K uploads to the
\* bucket OUTPUT_S3_BUCKET names when it is set and to "B-output" otherwise,
\* under "processed/" followed by the base filename of K, and its success
\* response reports that output_bucket and output_key.
C14_StorageTarget ==
    StorageInvocation =>
       LET b == ExpectedOutputBucket
           k == ExpectedOutputKey(EventLookup(event, "object", "key"))
       IN /\ \A i \in Uploads : s3log[i].bucket = b /\ s3log[i].key = k
          /\ Status(200) =>
                /\ \E i \in Uploads : s3log[i].ok
                /\ response.output_bucket = b
                /\ response.output_key = k

C14_Witness ==
    /\ Done
    /\ StorageInvocation
    /\ Status(200)
    /\ response.output_key = "processed/s.mxl"
    /\ response.output_bucket = "in-output"

\* The stages inside FingeringGenerator.process that can raise.
PipelineStages == {"parse", "extract", "engine", "serialize"}

\* The response is a 500 whose error is m.
Reports(m) ==
    /\ Status(500)
    /\ IF "body" \in DOMAIN response
       THEN response.body = JsonDumps(<< <<"error", m>>,
                                         <<"traceback", Traceback(m)>> >>)
       ELSE response.error = m

\* C15: when a pipeline stage fails with message m, the 500 response reports
\* m; cleanup on the failure path does not replace the error.
C15_OriginalErrorReported ==
    Done => \A stage \in failed \cap PipelineStages : Reports(stage \o " error")

\* The handler built its success response: the upload succeeded and, for a
\* direct request, the presigned URL was issued.
SuccessBuilt ==
    /\ \E i \in Uploads : s3log[i].ok
    /\ IF FlatShape(event)
       THEN "input_bucket" \in bound
       ELSE \E i \in 1..Len(s3log) : s3log[i].op = "presign" /\ s3log[i].ok

\* C16: a failure of os.unlink during cleanup is swallowed: after a
\* successful delivery the 200 response is still returned, and on a failure
\* path the response still reports the original failure.
C16_CleanupFailureSwallowed ==
    (Done /\ "unlink" \in failed) =>
       /\ SuccessBuilt => Status(200)
       /\ "upload" \in failed => Reports("upload failed")
       /\ "presign" \in failed => Reports("presign failed")

\* C17: every os.unlink the handler issues is for a temporary file of this
\* invocation that exists at that moment and that no earlier unlink of the
\* invocation deleted.
C17_DeleteOnce ==
    [][Len(unlinks') > Len(unlinks) =>
          LET u == unlinks'[Len(unlinks')]
          IN /\ u.path \in DOMAIN files
             /\ u.path \notin DOMAIN files0
             /\ \A j \in 1..Len(unlinks) :
                   ~(unlinks[j].path = u.path /\ unlinks[j].ok)]_vars

\* The outer handler ran after the finally clause had deleted both files.
C17_Witness ==
    /\ Done
    /\ Status(500)
    /\ "upload" \in failed
    /\ Len(unlinks) = 2
    /\ unlinks[1].ok /\ unlinks[2].ok
    /\ unlinks[1].path # unlinks[2].path

\* C18: a response with statusCode 400 is returned without side effects: no
\* temporary file or name was created, FingeringGenerator was not
\* constructed, no object-storage call was made and nothing was unlinked.
C18_ValidationWithoutEffects ==
    Status(400) =>
       /\ files = files0
       /\ tmpseq = 0
       /\ ~pipeline.started
       /\ s3log = <<>>
       /\ unlinks = <<>>

C18_Witness ==
    /\ Done
    /\ Status(400)
    /\ kind = "direct"
    /\ "body" \in bound

UploadedOk == \E i \in Uploads : s3log[i].ok

====
